---------------------------- MODULE Spec2Model ----------------------------
(***************************************************************************)
(* Model of the MaxLinear/Exar USB serial driver xr_serial.c: the model    *)
(* table, the register access layer, the UART lifecycle, the baud-rate     *)
(* engine, the two termios translators, modem control, break, open/close.  *)
(*                                                                         *)
(* Every handler is one action.  A handler's USB control transfers are     *)
(* appended, in program order, to the sequence `wire`; each element        *)
(* records what usb_control_msg() was given and whether it succeeded.      *)
(* Transfer failures are an input of the action (see Faults).              *)
(***************************************************************************)
EXTENDS Integers, Sequences, FiniteSets, TLC

VARIABLES
    model,      \* port_priv->model, "none" before probe
    channel,    \* port_priv->channel
    ctrl_if,    \* bInterfaceNumber of port_priv->control_if
    pstate,     \* "Unbound", "Probed", "Open", "Closed"
    termios,    \* tty->termios (line state), as the last handler left it
    op,         \* the last call: its name, its arguments and its result
    wire,       \* the control transfers the last call issued, in order
    dev         \* the device: the port's UART ENABLE and UM FIFO-enable
                \* registers, as the delivered writes have left them, and
                \* whether a transfer to it has failed since it was bound

vars == <<model, channel, ctrl_if, pstate, termios, op, wire, dev>>

(***************************************************************************)
(* Fixed-width integer arithmetic                                          *)
(***************************************************************************)
RECURSIVE BitOr(_, _)
BitOr(a, b) ==
    IF a = 0 THEN b
    ELSE IF b = 0 THEN a
    ELSE (IF a % 2 = 1 \/ b % 2 = 1 THEN 1 ELSE 0)
         + 2 * BitOr(a \div 2, b \div 2)

\* x & m # 0 for a one-bit mask m
HasBit(x, m) == (x \div m) % 2 = 1

\* conversion to u8 (u8 parameters, u8 locals, u8 compound assignment);
\* also x & 0xff
U8(x) == x % 256

\* conversion to u16
U16(x) == x % 65536


(***************************************************************************)
(* Constants of the driver                                                 *)
(***************************************************************************)
XR_INT_OSC_HZ == 48000000
MIN_SPEED == 46
MAX_SPEED == XR_INT_OSC_HZ

CLOCK_DIVISOR_0 == 4
CLOCK_DIVISOR_1 == 5
CLOCK_DIVISOR_2 == 6
TX_CLOCK_MASK_0 == 7
TX_CLOCK_MASK_1 == 8
RX_CLOCK_MASK_0 == 9
RX_CLOCK_MASK_1 == 10

UART_REG_BLOCK == 0
UM_REG_BLOCK == 4
UART_CUSTOM_BLOCK == 102          \* 0x66

UM_FIFO_ENABLE_REG == 16          \* 0x10
UM_ENABLE_TX_FIFO == 1
UM_ENABLE_RX_FIFO == 2

UART_ENABLE_TX == 1
UART_ENABLE_RX == 2

UART_MODE_RI == 1
UART_MODE_CD == 2
UART_MODE_DSR == 4
UART_MODE_DTR == 8
UART_MODE_CTS == 16
UART_MODE_RTS == 32

UART_BREAK_ON == 255
UART_BREAK_OFF == 0

UART_DATA_7 == 7
UART_DATA_8 == 8
UART_PARITY_ODD == 16
UART_PARITY_EVEN == 32
UART_PARITY_MARK == 48
UART_PARITY_SPACE == 64
UART_STOP_1 == 0
UART_STOP_2 == 128

UART_FLOW_MODE_NONE == 0
UART_FLOW_MODE_HW == 1
UART_FLOW_MODE_SW == 2

UART_MODE_GPIO_MASK == 7
UART_MODE_RTS_CTS == 1

URM_RESET_RX_FIFO_BASE == 24      \* 0x18
URM_RESET_TX_FIFO_BASE == 28      \* 0x1c

VIA_CDC_REGISTER == -1

\* enum xr_model
Models == {"XR2280X", "XR21B1411", "XR21V141X", "XR21B142X"}

\* enum xr_hal_type, the register names (REQ_SET and REQ_GET are kept apart)
RegNames ==
    {"REG_ENABLE", "REG_FORMAT", "REG_FLOW_CTRL", "REG_XON_CHAR",
     "REG_XOFF_CHAR", "REG_TX_BREAK", "REG_RS485_DELAY", "REG_GPIO_MODE",
     "REG_GPIO_DIR", "REG_GPIO_SET", "REG_GPIO_CLR", "REG_GPIO_STATUS",
     "REG_GPIO_INT_MASK", "REG_CUSTOMIZED_INT", "REG_GPIO_PULL_UP_ENABLE",
     "REG_GPIO_PULL_DOWN_ENABLE", "REG_LOOPBACK", "REG_LOW_LATENCY",
     "REG_CUSTOM_DRIVER"}

(***************************************************************************)
(* xr_hal_table[MAX_XR_MODELS][MAX_XR_HAL_TYPE].  Entries the initializer  *)
(* of a model does not name are zero (static storage).                     *)
(***************************************************************************)
hal_XR2280X ==
    [REG_ENABLE |-> 64, REG_FORMAT |-> 69, REG_FLOW_CTRL |-> 70,
     REG_XON_CHAR |-> 71, REG_XOFF_CHAR |-> 72, REG_TX_BREAK |-> 74,
     REG_RS485_DELAY |-> 75, REG_GPIO_MODE |-> 76, REG_GPIO_DIR |-> 77,
     REG_GPIO_SET |-> 78, REG_GPIO_CLR |-> 79, REG_GPIO_STATUS |-> 80,
     REG_GPIO_INT_MASK |-> 81, REG_CUSTOMIZED_INT |-> 82,
     REG_GPIO_PULL_UP_ENABLE |-> 84, REG_GPIO_PULL_DOWN_ENABLE |-> 85,
     REG_LOOPBACK |-> 86, REG_LOW_LATENCY |-> 102, REG_CUSTOM_DRIVER |-> 129,
     REQ_SET |-> 5, REQ_GET |-> 5]

hal_XR21B1411 ==
    [REG_ENABLE |-> 3072, REG_FORMAT |-> VIA_CDC_REGISTER,
     REG_FLOW_CTRL |-> 3078,
     REG_XON_CHAR |-> 3079, REG_XOFF_CHAR |-> 3080, REG_TX_BREAK |-> 3082,
     REG_RS485_DELAY |-> 3083, REG_GPIO_MODE |-> 3084, REG_GPIO_DIR |-> 3085,
     REG_GPIO_SET |-> 3086, REG_GPIO_CLR |-> 3087, REG_GPIO_STATUS |-> 3088,
     REG_GPIO_INT_MASK |-> 3089, REG_CUSTOMIZED_INT |-> 3090,
     REG_GPIO_PULL_UP_ENABLE |-> 3092, REG_GPIO_PULL_DOWN_ENABLE |-> 3093,
     REG_LOOPBACK |-> 3094, REG_LOW_LATENCY |-> 3266,
     REG_CUSTOM_DRIVER |-> 525,
     REQ_SET |-> 0, REQ_GET |-> 1]

hal_XR21V141X ==
    [REG_ENABLE |-> 3, REG_FORMAT |-> 11, REG_FLOW_CTRL |-> 12,
     REG_XON_CHAR |-> 16, REG_XOFF_CHAR |-> 17, REG_LOOPBACK |-> 18,
     REG_TX_BREAK |-> 20, REG_RS485_DELAY |-> 21, REG_GPIO_MODE |-> 26,
     REG_GPIO_DIR |-> 27, REG_GPIO_INT_MASK |-> 28, REG_GPIO_SET |-> 29,
     REG_GPIO_CLR |-> 30, REG_GPIO_STATUS |-> 31,
     REG_CUSTOMIZED_INT |-> 0, REG_GPIO_PULL_UP_ENABLE |-> 0,
     REG_GPIO_PULL_DOWN_ENABLE |-> 0, REG_LOW_LATENCY |-> 0,
     REG_CUSTOM_DRIVER |-> 0,
     REQ_SET |-> 0, REQ_GET |-> 1]

hal_XR21B142X ==
    [REG_ENABLE |-> 0, REG_FORMAT |-> VIA_CDC_REGISTER, REG_FLOW_CTRL |-> 6,
     REG_XON_CHAR |-> 7, REG_XOFF_CHAR |-> 8, REG_TX_BREAK |-> 10,
     REG_RS485_DELAY |-> 11, REG_GPIO_MODE |-> 12, REG_GPIO_DIR |-> 13,
     REG_GPIO_SET |-> 14, REG_GPIO_CLR |-> 15, REG_GPIO_STATUS |-> 16,
     REG_GPIO_INT_MASK |-> 17, REG_CUSTOMIZED_INT |-> 18,
     REG_GPIO_PULL_UP_ENABLE |-> 20, REG_GPIO_PULL_DOWN_ENABLE |-> 21,
     REG_LOOPBACK |-> 22, REG_LOW_LATENCY |-> 70, REG_CUSTOM_DRIVER |-> 96,
     REQ_SET |-> 0, REQ_GET |-> 0]

xr_hal_table(m, r) ==
    CASE m = "XR2280X"   -> hal_XR2280X[r]
      [] m = "XR21B1411" -> hal_XR21B1411[r]
      [] m = "XR21V141X" -> hal_XR21V141X[r]
      [] m = "XR21B142X" -> hal_XR21B142X[r]

(***************************************************************************)
(* The USB control-transfer primitive.  A call environment e carries the   *)
(* port (model, channel, ctrl_if) and what the outside decides during the  *)
(* call: which transfers fail (fault), the byte a register read returns    *)
(* (rd), the value an uninitialized automatic variable holds (junk), and   *)
(* the result of the generic bulk layer (gen).                             *)
(*                                                                         *)
(* fault = [at |-> k, sticky |-> b]: the k-th transfer of the call fails   *)
(* (k = 0: none); with sticky, every later one fails too (device gone).    *)
(***************************************************************************)
Failing(f, i) == f.at # 0 /\ (i = f.at \/ (f.sticky /\ i > f.at))

\* `ret = f(...);` followed by the statements that read ret: the call is
\* made once and K is the rest of the function, given its result
Bind(a, K(_)) == K(a)

\* usb_control_msg(): one more transfer on the wire, and its result
usb_control_msg(e, w, t) ==
    IF Failing(e.fault, Len(w) + 1)
    THEN [wire |-> Append(w, [t EXCEPT !.ok = FALSE]), ret |-> -32]
    ELSE [wire |-> Append(w, t), ret |-> t.wLength]

(***************************************************************************)
(* Register access layer.  block, reg and val are u8 parameters: the       *)
(* caller's int (a table entry, a sum) is converted on the call, and       *)
(* `reg |= x` stores the low eight bits of the result.  nm is the          *)
(* register the caller means (a label for reading the wire, not sent).     *)
(***************************************************************************)
\* the XR21B142X channel offset ORed in without the shift by one
MangleReg_noshift(e, reg) ==
    CASE e.model \in {"XR2280X", "XR21B1411"} -> reg
      [] e.model = "XR21V141X" ->
            IF e.channel # 0
            THEN U8(BitOr(reg, (e.channel - 1) * 256))
            ELSE reg
      [] e.model = "XR21B142X" ->
            BitOr(reg, U8(e.channel - 4))

\* the switch on the model in xr_set_reg and xr_get_reg
MangleReg(e, reg) ==
    CASE e.model \in {"XR2280X", "XR21B1411"} -> reg
      [] e.model = "XR21V141X" ->
            IF e.channel # 0
            THEN U8(BitOr(reg, (e.channel - 1) * 256))
            ELSE reg
      [] e.model = "XR21B142X" ->
            \* channel is unsigned int; only the low byte of
            \* (channel - 4) << 1 reaches the u8 (x % 256 is never negative)
            BitOr(reg, U8((e.channel - 4) * 2))

xr_set_reg(e, w, block, reg, val, nm) ==
    Bind(usb_control_msg(e, w,
                [type |-> "vendor", dir |-> "out",
                 req |-> xr_hal_table(e.model, "REQ_SET"),
                 wValue |-> U8(val),
                 wIndex |-> U16(BitOr(MangleReg(e, U8(reg)), U8(block) * 256)),
                 wLength |-> 0, data |-> <<>>, ok |-> TRUE,
                 reg |-> nm, block |-> U8(block)]),
         LAMBDA x: [wire |-> x.wire, ret |-> IF x.ret < 0 THEN x.ret ELSE 0])

\* the result also carries val, the byte stored through *val on success
xr_get_reg(e, w, block, reg, nm) ==
    Bind(usb_control_msg(e, w,
                [type |-> "vendor", dir |-> "in",
                 req |-> xr_hal_table(e.model, "REQ_GET"),
                 wValue |-> 0,
                 wIndex |-> U16(BitOr(MangleReg(e, U8(reg)), U8(block) * 256)),
                 wLength |-> 1, data |-> <<e.rd>>, ok |-> TRUE,
                 reg |-> nm, block |-> U8(block)]),
         LAMBDA x: [wire |-> x.wire,
                    ret |-> IF x.ret = 1 THEN 0 ELSE x.ret,
                    val |-> IF x.ret = 1 THEN e.rd ELSE e.junk])

xr_set_reg_uart(e, w, reg, val, nm) ==
    xr_set_reg(e, w, UART_REG_BLOCK, reg, val, nm)

xr_get_reg_uart(e, w, reg, nm) ==
    xr_get_reg(e, w, UART_REG_BLOCK, reg, nm)

xr_set_reg_um(e, w, reg, val, nm) ==
    xr_set_reg(e, w, UM_REG_BLOCK, reg, val, nm)

\* xr_usb_serial_ctrl_msg(): a class request to the control interface;
\* buf is the payload (kmemdup'ed when len # 0), len its size in bytes
xr_usb_serial_ctrl_msg(e, w, request, val, buf, len, nm) ==
    Bind(usb_control_msg(e, w,
                [type |-> "class", dir |-> "out",
                 req |-> request, wValue |-> U16(val),
                 wIndex |-> e.ctrl_if,
                 wLength |-> len, data |-> buf, ok |-> TRUE,
                 reg |-> nm, block |-> 0]),
         LAMBDA x: [wire |-> x.wire, ret |-> IF x.ret < 0 THEN x.ret ELSE 0])

(***************************************************************************)
(* UART lifecycle                                                          *)
(***************************************************************************)
\* the enable sequence without the rollback of a failed last step
xr_uart_enable_norollback(e, w) ==
    IF e.model # "XR21V141X"
    THEN xr_set_reg_uart(e, w, xr_hal_table(e.model, "REG_ENABLE"),
                         BitOr(UART_ENABLE_TX, UART_ENABLE_RX), "REG_ENABLE")
    ELSE
    Bind(xr_set_reg_um(e, w, UM_FIFO_ENABLE_REG, UM_ENABLE_TX_FIFO,
                       "UM_FIFO_ENABLE"), LAMBDA a:
    IF a.ret # 0 THEN a ELSE
    Bind(xr_set_reg_uart(e, a.wire, xr_hal_table(e.model, "REG_ENABLE"),
                         BitOr(UART_ENABLE_TX, UART_ENABLE_RX),
                         "REG_ENABLE"), LAMBDA b:
    IF b.ret # 0 THEN b ELSE
    xr_set_reg_um(e, b.wire, UM_FIFO_ENABLE_REG,
                  BitOr(UM_ENABLE_TX_FIFO, UM_ENABLE_RX_FIFO),
                  "UM_FIFO_ENABLE")))

xr_uart_enable(e, w) ==
    IF e.model # "XR21V141X"
    THEN xr_set_reg_uart(e, w, xr_hal_table(e.model, "REG_ENABLE"),
                         BitOr(UART_ENABLE_TX, UART_ENABLE_RX), "REG_ENABLE")
    ELSE
    Bind(xr_set_reg_um(e, w, UM_FIFO_ENABLE_REG, UM_ENABLE_TX_FIFO,
                       "UM_FIFO_ENABLE"), LAMBDA a:
    IF a.ret # 0 THEN a ELSE
    Bind(xr_set_reg_uart(e, a.wire, xr_hal_table(e.model, "REG_ENABLE"),
                         BitOr(UART_ENABLE_TX, UART_ENABLE_RX),
                         "REG_ENABLE"), LAMBDA b:
    IF b.ret # 0 THEN b ELSE
    Bind(xr_set_reg_um(e, b.wire, UM_FIFO_ENABLE_REG,
                       BitOr(UM_ENABLE_TX_FIFO, UM_ENABLE_RX_FIFO),
                       "UM_FIFO_ENABLE"), LAMBDA c:
    IF c.ret = 0 THEN c ELSE
    Bind(xr_set_reg_uart(e, c.wire, xr_hal_table(e.model, "REG_ENABLE"), 0,
                         "REG_ENABLE"), LAMBDA u:
    [wire |-> u.wire, ret |-> c.ret]))))

xr_uart_disable(e, w) ==
    Bind(xr_set_reg_uart(e, w, xr_hal_table(e.model, "REG_ENABLE"), 0,
                         "REG_ENABLE"), LAMBDA a:
    IF a.ret # 0 THEN a
    ELSE IF e.model # "XR21V141X" THEN a
    ELSE xr_set_reg_um(e, a.wire, UM_FIFO_ENABLE_REG, 0, "UM_FIFO_ENABLE"))

\* the reset registers taken at BASE + channel: the channel not decremented
fifo_reset_nodec(e, w) ==
    IF e.model # "XR21V141X" THEN [wire |-> w, ret |-> 0]
    ELSE
    LET ch == e.channel
    IN  Bind(xr_set_reg_um(e, w, URM_RESET_RX_FIFO_BASE + ch, 255,
                           "UM_RX_FIFO_RESET"), LAMBDA a:
        IF a.ret # 0 THEN a
        ELSE xr_set_reg_um(e, a.wire, URM_RESET_TX_FIFO_BASE + ch, 255,
                           "UM_TX_FIFO_RESET"))

fifo_reset(e, w) ==
    IF e.model # "XR21V141X" THEN [wire |-> w, ret |-> 0]
    ELSE
    LET ch == IF e.channel # 0 THEN e.channel - 1 ELSE e.channel
    IN  Bind(xr_set_reg_um(e, w, URM_RESET_RX_FIFO_BASE + ch, 255,
                           "UM_RX_FIFO_RESET"), LAMBDA a:
        IF a.ret # 0 THEN a
        ELSE xr_set_reg_um(e, a.wire, URM_RESET_TX_FIFO_BASE + ch, 255,
                           "UM_TX_FIFO_RESET"))

(***************************************************************************)
(* Modem control and break                                                 *)
(***************************************************************************)
\* the tty layer's modem bits and the CDC class requests (kernel headers)
TIOCM_DTR == 2
TIOCM_RTS == 4
USB_CDC_REQ_SET_LINE_CODING == 32  \* 0x20
USB_CDC_REQ_SEND_BREAK == 35       \* 0x23

\* the modem bits taken as active high: set and clear not exchanged
xr_tiocmset_port_noswap(e, w, set, clear) ==
    LET clr1 == IF HasBit(clear, TIOCM_RTS) THEN UART_MODE_RTS ELSE 0
        gpio_clr == IF HasBit(clear, TIOCM_DTR)
                    THEN BitOr(clr1, UART_MODE_DTR) ELSE clr1
        set1 == IF HasBit(set, TIOCM_RTS) THEN UART_MODE_RTS ELSE 0
        gpio_set == IF HasBit(set, TIOCM_DTR)
                    THEN BitOr(set1, UART_MODE_DTR) ELSE set1
    IN  Bind(IF gpio_clr # 0
             THEN xr_set_reg_uart(e, w, xr_hal_table(e.model, "REG_GPIO_CLR"),
                                  gpio_clr, "REG_GPIO_CLR")
             ELSE [wire |-> w, ret |-> 0], LAMBDA a:
        IF gpio_set # 0
        THEN xr_set_reg_uart(e, a.wire, xr_hal_table(e.model, "REG_GPIO_SET"),
                             gpio_set, "REG_GPIO_SET")
        ELSE a)

xr_tiocmset_port(e, w, set, clear) ==
    LET clr1 == IF HasBit(set, TIOCM_RTS) THEN UART_MODE_RTS ELSE 0
        gpio_clr == IF HasBit(set, TIOCM_DTR)
                    THEN BitOr(clr1, UART_MODE_DTR) ELSE clr1
        set1 == IF HasBit(clear, TIOCM_RTS) THEN UART_MODE_RTS ELSE 0
        gpio_set == IF HasBit(clear, TIOCM_DTR)
                    THEN BitOr(set1, UART_MODE_DTR) ELSE set1
    IN  Bind(IF gpio_clr # 0
             THEN xr_set_reg_uart(e, w, xr_hal_table(e.model, "REG_GPIO_CLR"),
                                  gpio_clr, "REG_GPIO_CLR")
             ELSE [wire |-> w, ret |-> 0], LAMBDA a:
        IF gpio_set # 0
        THEN xr_set_reg_uart(e, a.wire, xr_hal_table(e.model, "REG_GPIO_SET"),
                             gpio_set, "REG_GPIO_SET")
        ELSE a)

\* the two directions exchanged: `on` drops the lines, `off` raises them
xr_dtr_rts_inverted(e, w, on) ==
    IF on # 0
    THEN xr_tiocmset_port(e, w, 0, BitOr(TIOCM_DTR, TIOCM_RTS))
    ELSE xr_tiocmset_port(e, w, BitOr(TIOCM_DTR, TIOCM_RTS), 0)

xr_dtr_rts(e, w, on) ==
    IF on # 0
    THEN xr_tiocmset_port(e, w, BitOr(TIOCM_DTR, TIOCM_RTS), 0)
    ELSE xr_tiocmset_port(e, w, 0, BitOr(TIOCM_DTR, TIOCM_RTS))

\* on the class path `state` is read before anything was stored in it
xr_break_ctl(e, w, break_state) ==
    IF e.model # "XR21V141X"
    THEN xr_usb_serial_ctrl_msg(e, w, USB_CDC_REQ_SEND_BREAK, U8(e.junk),
                                <<>>, 0, "SEND_BREAK")
    ELSE xr_set_reg_uart(e, w, xr_hal_table(e.model, "REG_TX_BREAK"),
                         IF break_state = 0 THEN UART_BREAK_OFF
                                            ELSE UART_BREAK_ON,
                         "REG_TX_BREAK")

\* xr_tiocmget(): the status byte read, inverted bit by bit (active low)
TIOCM_CTS == 32
TIOCM_CD == 64
TIOCM_RI == 128
TIOCM_DSR == 256

\* one line of the result: `(status & mask) ? 0 : bit`
StatusBit(status, mask, bit) == IF HasBit(status, mask) THEN 0 ELSE bit

xr_tiocmget(e, w) ==
    Bind(xr_get_reg_uart(e, w, xr_hal_table(e.model, "REG_GPIO_STATUS"),
                         "REG_GPIO_STATUS"), LAMBDA g:
    IF g.ret # 0 THEN [wire |-> g.wire, ret |-> g.ret]
    ELSE [wire |-> g.wire,
          ret |-> StatusBit(g.val, UART_MODE_DTR, TIOCM_DTR)
                + StatusBit(g.val, UART_MODE_RTS, TIOCM_RTS)
                + StatusBit(g.val, UART_MODE_CTS, TIOCM_CTS)
                + StatusBit(g.val, UART_MODE_DSR, TIOCM_DSR)
                + StatusBit(g.val, UART_MODE_RI, TIOCM_RI)
                + StatusBit(g.val, UART_MODE_CD, TIOCM_CD)])

(***************************************************************************)
(* Baud-rate engine                                                        *)
(***************************************************************************)
\* struct xr_txrx_clk_mask {tx, rx0, rx1}[32]; entry i of the C array is
\* element i + 1 of the sequence
xr21v141x_txrx_clk_masks ==
    <<
     <<0, 0, 0>>,   \*  0: 0x000 0x000 0x000
     <<0, 0, 0>>,   \*  1: 0x000 0x000 0x000
     <<256, 0, 256>>,   \*  2: 0x100 0x000 0x100
     <<32, 1024, 32>>,   \*  3: 0x020 0x400 0x020
     <<16, 256, 16>>,   \*  4: 0x010 0x100 0x010
     <<520, 64, 520>>,   \*  5: 0x208 0x040 0x208
     <<260, 2080, 264>>,   \*  6: 0x104 0x820 0x108
     <<2116, 528, 2180>>,   \*  7: 0x844 0x210 0x884
     <<1092, 272, 1092>>,   \*  8: 0x444 0x110 0x444
     <<290, 2184, 548>>,   \*  9: 0x122 0x888 0x224
     <<2322, 1096, 2340>>,   \* 10: 0x912 0x448 0x924
     <<1170, 584, 1170>>,   \* 11: 0x492 0x248 0x492
     <<594, 2344, 658>>,   \* 12: 0x252 0x928 0x292
     <<2378, 1188, 2642>>,   \* 13: 0x94a 0x4a4 0xa52
     <<1322, 2724, 1354>>,   \* 14: 0x52a 0xaa4 0x54a
     <<2730, 2388, 1194>>,   \* 15: 0xaaa 0x954 0x4aa
     <<2730, 1364, 2730>>,   \* 16: 0xaaa 0x554 0xaaa
     <<1365, 2772, 1450>>,   \* 17: 0x555 0xad4 0x5aa
     <<2901, 2740, 1370>>,   \* 18: 0xb55 0xab4 0x55a
     <<1717, 1452, 2902>>,   \* 19: 0x6b5 0x5ac 0xb56
     <<1461, 3436, 1750>>,   \* 20: 0x5b5 0xd6c 0x6d6
     <<2925, 2922, 3510>>,   \* 21: 0xb6d 0xb6a 0xdb6
     <<1901, 1754, 2998>>,   \* 22: 0x76d 0x6da 0xbb6
     <<3805, 3546, 1902>>,   \* 23: 0xedd 0xdda 0x76e
     <<3549, 3002, 3822>>,   \* 24: 0xddd 0xbba 0xeee
     <<1979, 3962, 3550>>,   \* 25: 0x7bb 0xf7a 0xdde
     <<3963, 3830, 2014>>,   \* 26: 0xf7b 0xef6 0x7de
     <<3575, 3062, 3966>>,   \* 27: 0xdf7 0xbf6 0xf7e
     <<2039, 4078, 3838>>,   \* 28: 0x7f7 0xfee 0xefe
     <<4063, 4030, 2046>>,   \* 29: 0xfdf 0xfbe 0x7fe
     <<3967, 3838, 4094>>,   \* 30: 0xf7f 0xefe 0xffe
     <<4095, 4094, 4093>>    \* 31: 0xfff 0xffe 0xffd
    >>

clamp(v, lo, hi) == IF v < lo THEN lo ELSE IF v > hi THEN hi ELSE v

\* baud = clamp(baud, MIN_SPEED, MAX_SPEED)
BaudClamp(baud) == clamp(baud, MIN_SPEED, MAX_SPEED)

\* divisor = XR_INT_OSC_HZ / baud (u32)
BaudDivisor(baud) == XR_INT_OSC_HZ \div baud

\* the index masked with 0x0f instead of 0x1f
BaudIdx_mask0f(baud) == ((32 * XR_INT_OSC_HZ) \div baud) % 16

\* idx = ((32 * XR_INT_OSC_HZ) / baud) & 0x1f (u32; the product,
\* 1,536,000,000, is below 2^32)
BaudIdx(baud) == ((32 * XR_INT_OSC_HZ) \div baud) % 32

\* tx_mask = xr21v141x_txrx_clk_masks[idx].tx
BaudTxMask(baud) == xr21v141x_txrx_clk_masks[BaudIdx(baud) + 1][1]

\* the rx mask with the two branches of the parity test exchanged
BaudRxMask_swapped(baud) ==
    IF HasBit(BaudDivisor(baud), 1)
    THEN xr21v141x_txrx_clk_masks[BaudIdx(baud) + 1][2]
    ELSE xr21v141x_txrx_clk_masks[BaudIdx(baud) + 1][3]

\* rx_mask = divisor & 1 ? masks[idx].rx1 : masks[idx].rx0
BaudRxMask(baud) ==
    IF HasBit(BaudDivisor(baud), 1)
    THEN xr21v141x_txrx_clk_masks[BaudIdx(baud) + 1][3]
    ELSE xr21v141x_txrx_clk_masks[BaudIdx(baud) + 1][2]

\* a run of `ret = xr_set_reg_uart(...); if (ret) return ret;` statements:
\* regs is the sequence of <<reg, val, name>> in program order
RECURSIVE SetRegsUart(_, _, _)
SetRegsUart(e, w, regs) ==
    IF regs = <<>> THEN [wire |-> w, ret |-> 0]
    ELSE Bind(xr_set_reg_uart(e, w, regs[1][1], regs[1][2], regs[1][3]),
              LAMBDA a: IF a.ret # 0 THEN a
                        ELSE SetRegsUart(e, a.wire, Tail(regs)))

\* the seven writes with the two low divisor bytes exchanged
BaudWrites_swapped(baud) ==
    LET divisor == BaudDivisor(baud)
        tx_mask == BaudTxMask(baud)
        rx_mask == BaudRxMask(baud)
    IN  <<<<CLOCK_DIVISOR_0, U8(divisor \div 256), "CLOCK_DIVISOR_0">>,
          <<CLOCK_DIVISOR_1, U8(divisor), "CLOCK_DIVISOR_1">>,
          <<CLOCK_DIVISOR_2, U8(divisor \div 65536), "CLOCK_DIVISOR_2">>,
          <<TX_CLOCK_MASK_0, U8(tx_mask), "TX_CLOCK_MASK_0">>,
          <<TX_CLOCK_MASK_1, U8(tx_mask \div 256), "TX_CLOCK_MASK_1">>,
          <<RX_CLOCK_MASK_0, U8(rx_mask), "RX_CLOCK_MASK_0">>,
          <<RX_CLOCK_MASK_1, U8(rx_mask \div 256), "RX_CLOCK_MASK_1">>>>

\* the seven writes of xr_set_baudrate, in program order
BaudWrites(baud) ==
    LET divisor == BaudDivisor(baud)
        tx_mask == BaudTxMask(baud)
        rx_mask == BaudRxMask(baud)
    IN  <<<<CLOCK_DIVISOR_0, U8(divisor), "CLOCK_DIVISOR_0">>,
          <<CLOCK_DIVISOR_1, U8(divisor \div 256), "CLOCK_DIVISOR_1">>,
          <<CLOCK_DIVISOR_2, U8(divisor \div 65536), "CLOCK_DIVISOR_2">>,
          <<TX_CLOCK_MASK_0, U8(tx_mask), "TX_CLOCK_MASK_0">>,
          <<TX_CLOCK_MASK_1, U8(tx_mask \div 256), "TX_CLOCK_MASK_1">>,
          <<RX_CLOCK_MASK_0, U8(rx_mask), "RX_CLOCK_MASK_0">>,
          <<RX_CLOCK_MASK_1, U8(rx_mask \div 256), "RX_CLOCK_MASK_1">>>>

\* the clamped baud stored in the termios whether or not the writes went
\* through
xr_set_baudrate_echo(e, w, t) ==
    IF t.ospeed = 0 THEN [wire |-> w, ret |-> 0, termios |-> t]
    ELSE
    Bind(SetRegsUart(e, w, BaudWrites(BaudClamp(t.ospeed))), LAMBDA a:
    [wire |-> a.wire, ret |-> a.ret,
     termios |-> [t EXCEPT !.ospeed = BaudClamp(t.ospeed)]])

\* t is tty->termios; the result carries it as the call leaves it
\* (tty_encode_baud_rate stores the clamped baud after the last write)
xr_set_baudrate(e, w, t) ==
    IF t.ospeed = 0 THEN [wire |-> w, ret |-> 0, termios |-> t]
    ELSE
    Bind(SetRegsUart(e, w, BaudWrites(BaudClamp(t.ospeed))), LAMBDA a:
    IF a.ret # 0 THEN [wire |-> a.wire, ret |-> a.ret, termios |-> t]
    ELSE [wire |-> a.wire, ret |-> 0,
          termios |-> [t EXCEPT !.ospeed = BaudClamp(t.ospeed)]])

(***************************************************************************)
(* Termios translator.  t is tty->termios: ospeed (c_ospeed; C_BAUD is B0  *)
(* exactly when it is 0, as the tty layer keeps the two in step), csize    *)
(* (the CSIZE field as a number of bits; the cleared field is CS5),        *)
(* parenb, parodd, cmspar, cstopb, crtscts, ixon, vstart, vstop.           *)
(* old is old_termios: <<>> for NULL, else <<the previous termios>>.       *)
(***************************************************************************)
\* C_CRTSCTS(tty) && C_BAUD(tty) != B0
FlowHw(t) == t.crtscts /\ t.ospeed # 0

\* the else-if branch: I_IXON(tty)
FlowSw(t) == ~FlowHw(t) /\ t.ixon

FlowMode(t) ==
    IF FlowHw(t) THEN UART_FLOW_MODE_HW
    ELSE IF FlowSw(t) THEN UART_FLOW_MODE_SW
    ELSE UART_FLOW_MODE_NONE

\* u8 gpio_mode as written back: &= ~UART_MODE_GPIO_MASK, then
\* |= UART_MODE_RTS_CTS with hardware flow control, then |= 0x300 on
\* XR21B142X (stored in eight bits)
GpioMode(e, t, val) ==
    LET mode0 == U8(val) - (U8(val) % (UART_MODE_GPIO_MASK + 1))
        mode1 == IF FlowHw(t) THEN U8(BitOr(mode0, UART_MODE_RTS_CTS))
                 ELSE mode0
    IN  IF e.model = "XR21B142X" THEN U8(BitOr(mode1, 768)) ELSE mode1

\* xr_set_flow_mode() after the GPIO_MODE read g has succeeded
FlowModeSteps(e, g, t, old) ==
    Bind(IF FlowSw(t)
         THEN xr_set_reg_uart(e, g.wire,
                  xr_hal_table(e.model, "REG_XON_CHAR"), t.vstart,
                  "REG_XON_CHAR")
         ELSE [wire |-> g.wire, ret |-> 0], LAMBDA x1:
    Bind(IF FlowSw(t)
         THEN xr_set_reg_uart(e, x1.wire,
                  xr_hal_table(e.model, "REG_XOFF_CHAR"), t.vstop,
                  "REG_XOFF_CHAR")
         ELSE x1, LAMBDA x2:
    Bind(xr_uart_disable(e, x2.wire), LAMBDA d:
    Bind(xr_set_reg_uart(e, d.wire, xr_hal_table(e.model, "REG_FLOW_CTRL"),
                         FlowMode(t), "REG_FLOW_CTRL"), LAMBDA f:
    Bind(xr_uart_enable(e, f.wire), LAMBDA en:
    Bind(xr_set_reg_uart(e, en.wire, xr_hal_table(e.model, "REG_GPIO_MODE"),
                         GpioMode(e, t, g.val), "REG_GPIO_MODE"), LAMBDA m:
    IF t.ospeed = 0 THEN [wire |-> xr_dtr_rts(e, m.wire, 0).wire]
    ELSE IF old # <<>> /\ old[1].ospeed = 0
         THEN [wire |-> xr_dtr_rts(e, m.wire, 1).wire]
    ELSE [wire |-> m.wire]))))))

\* xr_set_flow_mode() without `if (ret) return;` after the GPIO_MODE read
xr_set_flow_mode_noreturn(e, w, t, old) ==
    Bind(xr_get_reg_uart(e, w, xr_hal_table(e.model, "REG_GPIO_MODE"),
                         "REG_GPIO_MODE"),
         LAMBDA g: FlowModeSteps(e, g, t, old))

\* a void function: the result is the wire alone
xr_set_flow_mode(e, w, t, old) ==
    Bind(xr_get_reg_uart(e, w, xr_hal_table(e.model, "REG_GPIO_MODE"),
                         "REG_GPIO_MODE"),
         LAMBDA g: IF g.ret # 0 THEN [wire |-> g.wire]
                   ELSE FlowModeSteps(e, g, t, old))

\* struct usb_cdc_line_coding as <<dwDTERate, bCharFormat, bParityType,
\* bDataBits>>; sizeof(line) is 7
LineCoding(t) ==
    <<t.ospeed,
      IF t.cstopb THEN 1 ELSE 0,
      IF t.parenb
      THEN (IF t.parodd THEN 1 ELSE 2) + (IF t.cmspar THEN 2 ELSE 0)
      ELSE 0,
      t.csize>>

\* `int clear, set;` are not initialized: the one the branch does not
\* assign holds whatever the stack held (e.junk)
xr_set_termios_cdc(e, w, t, old) ==
    LET clear == IF LineCoding(t)[1] = 0 THEN UART_MODE_DTR ELSE e.junk
        set   == IF LineCoding(t)[1] = 0 THEN e.junk ELSE UART_MODE_DTR
    IN  Bind(IF clear # 0 \/ set # 0
             THEN xr_tiocmset_port(e, w, set, clear)
             ELSE [wire |-> w, ret |-> 0], LAMBDA a:
        Bind(xr_set_flow_mode(e, a.wire, t, old), LAMBDA b:
        Bind(xr_usb_serial_ctrl_msg(e, b.wire, USB_CDC_REQ_SET_LINE_CODING,
                                    0, LineCoding(t), 7, "SET_LINE_CODING"),
             LAMBDA c: [wire |-> c.wire, termios |-> t])))

\* the data-bits part of `bits` and the CSIZE the switch leaves in termios
FormatData(t, old) ==
    IF t.csize \in {5, 6}
    THEN [csize |-> IF old # <<>> THEN old[1].csize ELSE 5,
          bits  |-> IF old # <<>> THEN 0 ELSE UART_DATA_8]
    ELSE IF t.csize = 7 THEN [csize |-> 7, bits |-> UART_DATA_7]
    ELSE [csize |-> t.csize, bits |-> UART_DATA_8]

FormatParity(t) ==
    IF ~t.parenb THEN 0
    ELSE IF t.cmspar
         THEN (IF t.parodd THEN UART_PARITY_MARK ELSE UART_PARITY_SPACE)
         ELSE (IF t.parodd THEN UART_PARITY_ODD ELSE UART_PARITY_EVEN)

FormatStop(t) == IF t.cstopb THEN UART_STOP_2 ELSE UART_STOP_1

\* tty->termios once the switch on C_CSIZE has run; t is what
\* xr_set_baudrate left
FormatTermios(t, old) == [t EXCEPT !.csize = FormatData(t, old).csize]

\* u8 bits as written to the format register
FormatBits(t, old) ==
    BitOr(BitOr(FormatData(t, old).bits, FormatParity(FormatTermios(t, old))),
          FormatStop(FormatTermios(t, old)))

xr_set_termios_format_reg(e, w, t, old) ==
    Bind(IF old = <<>> \/ t.ospeed # old[1].ospeed
         THEN xr_set_baudrate(e, w, t)
         ELSE [wire |-> w, ret |-> 0, termios |-> t], LAMBDA b:
    Bind(xr_set_reg_uart(e, b.wire, xr_hal_table(e.model, "REG_FORMAT"),
                         FormatBits(b.termios, old), "REG_FORMAT"), LAMBDA f:
    Bind(xr_set_flow_mode(e, f.wire, FormatTermios(b.termios, old), old),
         LAMBDA g: [wire |-> g.wire,
                    termios |-> FormatTermios(b.termios, old)])))

xr_set_termios(e, w, t, old) ==
    IF xr_hal_table(e.model, "REG_FORMAT") = VIA_CDC_REGISTER
    THEN xr_set_termios_cdc(e, w, t, old)
    ELSE xr_set_termios_format_reg(e, w, t, old)

(***************************************************************************)
(* Open and close.  tty is <<>> (NULL) or <<tty->termios>>; e.gen is what  *)
(* usb_serial_generic_open() returns.                                      *)
(***************************************************************************)
xr_open(e, w, tty) ==
    Bind(xr_uart_enable(e, w), LAMBDA a:
    IF a.ret # 0 THEN [wire |-> a.wire, ret |-> a.ret, tty |-> tty]
    ELSE
    Bind(xr_set_reg_uart(e, a.wire, xr_hal_table(e.model, "REG_GPIO_DIR"),
                         BitOr(UART_MODE_DTR, UART_MODE_RTS),
                         "REG_GPIO_DIR"), LAMBDA d:
    Bind(fifo_reset(e, d.wire), LAMBDA r:
    IF r.ret # 0 THEN [wire |-> r.wire, ret |-> r.ret, tty |-> tty]
    ELSE
    Bind(IF tty # <<>>
         THEN xr_set_termios(e, r.wire, tty[1], <<>>)
         ELSE [wire |-> r.wire, termios |-> <<>>], LAMBDA s:
    IF e.gen # 0
    THEN [wire |-> xr_uart_disable(e, s.wire).wire, ret |-> e.gen,
          tty |-> IF tty # <<>> THEN <<s.termios>> ELSE tty]
    ELSE [wire |-> s.wire, ret |-> 0,
          tty |-> IF tty # <<>> THEN <<s.termios>> ELSE tty]))))

xr_close(e, w) == xr_uart_disable(e, w)

(***************************************************************************)
(* Inputs                                                                  *)
(***************************************************************************)
MaxXferOpen == 27    \* a fault may hit any of the first 27 transfers of open
MaxXferTermios == 19 \* ... of set_termios
MaxXferShort == 2    \* ... of close, tiocmset, tiocmget, dtr_rts, break_ctl
NChan == 2           \* ports probed per multi-port model
MaxIfnum == 1        \* interface numbers offered to probe: 0..MaxIfnum

NoFault == [at |-> 0, sticky |-> FALSE]

Faults(n) ==
    {NoFault} \cup {[at |-> k, sticky |-> b] : k \in 1..n, b \in BOOLEAN}

\* the port's calls are explored with transfers failing in one call of a
\* run at most: once a transfer was lost, the later calls all go through
FaultsLeft(n) == IF dev.lost THEN {NoFault} ELSE Faults(n)

\* bytes a register read may return; values of an uninitialized int
RdVals == {0, 173}
JunkVals == {0, 6}
\* results of usb_serial_generic_open()
GenRets == {0, -12}

Bauds == {0, 9600, 115200}

Line(b, cs, pe, po, cm, st, hw, sw) ==
    [ospeed |-> b, csize |-> cs, parenb |-> pe, parodd |-> po,
     cmspar |-> cm, cstopb |-> st, crtscts |-> hw, ixon |-> sw,
     vstart |-> 17, vstop |-> 19]

\* the line settings the tty layer hands in: every character size and
\* every baud without flow control, the flow-control modes (CRTSCTS at a
\* zero baud falls through to IXON), and stick parity with two stop bits
LineSettings ==
    {Line(9600, cs, FALSE, FALSE, FALSE, FALSE, FALSE, FALSE) : cs \in 5..8}
    \cup {Line(b, 8, FALSE, FALSE, FALSE, FALSE, FALSE, FALSE) : b \in Bauds}
    \cup {Line(9600, 8, FALSE, FALSE, FALSE, FALSE, TRUE, FALSE),
          Line(9600, 8, FALSE, FALSE, FALSE, FALSE, FALSE, TRUE),
          Line(0, 8, FALSE, FALSE, FALSE, FALSE, TRUE, TRUE),
          Line(9600, 7, TRUE, TRUE, TRUE, TRUE, FALSE, FALSE)}

\* bEndpointAddress values of the data endpoints offered to probe
Channels(m) ==
    CASE m = "XR21V141X" -> 1..NChan
      [] m = "XR21B142X" -> 4..(3 + NChan)
      [] OTHER -> {1}

Env(f, rd, junk, gen) ==
    [model |-> model, channel |-> channel, ctrl_if |-> ctrl_if,
     fault |-> f, rd |-> rd, junk |-> junk, gen |-> gen]

IsCdc == model \in Models
         /\ xr_hal_table(model, "REG_FORMAT") = VIA_CDC_REGISTER

\* uninitialized storage is read only on the class-request paths
JunksTermios == IF IsCdc THEN JunkVals ELSE {0}
JunksBreak == IF model # "XR21V141X" THEN JunkVals ELSE {0}

\* what the outside decides during a call with up to n transfers: a fault
\* (the register read then returns 0), or no fault and any byte read
Outside(n, junks) ==
    {[fault |-> f, rd |-> 0, junk |-> j] : f \in FaultsLeft(n), j \in junks}
    \cup {[fault |-> NoFault, rd |-> r, junk |-> j] :
             r \in RdVals, j \in junks}

(***************************************************************************)
(* The device at the other end of the control pipe.  A vendor write that   *)
(* is delivered stores wValue in the register wIndex selects.  The port's  *)
(* own registers lie at the address the driver computes in int, before     *)
(* the result is stored in the u8 reg: the table entry with the channel    *)
(* offset, in the low byte of wIndex and the block in the high byte.       *)
(***************************************************************************)
\* (channel - 1) << 8 on XR21V141X, (channel - 4) << 1 on XR21B142X
ChannelOffset(m, c) ==
    CASE m = "XR21V141X" -> IF c # 0 THEN (c - 1) * 256 ELSE 0
      [] m = "XR21B142X" -> (c - 4) * 2
      [] OTHER -> 0

\* reg | (block << 8), with reg the full address of the port's register
DevAddr(m, c, block, reg) ==
    BitOr(block * 256, BitOr(reg, ChannelOffset(m, c)))

\* the registers of a device no write has reached yet
DevReset == [enable |-> 0, fifo |-> 0, lost |-> FALSE]

\* the effect of transfer x on the registers d of the port (m, c)
DevStep(m, c, d, x) ==
    IF ~x.ok THEN [d EXCEPT !.lost = TRUE]
    ELSE IF ~(x.type = "vendor" /\ x.dir = "out") THEN d
    ELSE IF x.wIndex = DevAddr(m, c, UART_REG_BLOCK,
                               xr_hal_table(m, "REG_ENABLE"))
         THEN [d EXCEPT !.enable = x.wValue]
    ELSE IF m = "XR21V141X"
            /\ x.wIndex = DevAddr(m, c, UM_REG_BLOCK, UM_FIFO_ENABLE_REG)
         THEN [d EXCEPT !.fifo = x.wValue]
    ELSE d

\* the registers after the transfers of w, in order
RECURSIVE Deliver(_, _, _, _)
Deliver(m, c, d, w) ==
    IF w = <<>> THEN d
    ELSE Deliver(m, c, DevStep(m, c, d, Head(w)), Tail(w))

\* op.dev is the device as the call found it
NoOp == [name |-> "none", req |-> <<>>, old |-> <<>>, arg |-> 0, arg2 |-> 0,
         ret |-> 0, dev |-> DevReset]

(***************************************************************************)
(* The port's state machine.  The tty and USB cores call the handlers one  *)
(* at a time: a call is taken when no call is being looked at (op = NoOp), *)
(* leaves its arguments and result in op and its transfers in wire, and    *)
(* Return hands the result back and clears both.                           *)
(***************************************************************************)
Init ==
    /\ model = "none" /\ channel = 0 /\ ctrl_if = 0
    /\ pstate = "Unbound"
    /\ termios = <<>>
    /\ op = NoOp
    /\ wire = <<>>
    /\ dev = DevReset

\* xr_probe(): only data interfaces (odd numbers) are attached
Probe(m, ifnum, ep) ==
    /\ op = NoOp
    /\ pstate = "Unbound"
    /\ IF ifnum % 2 = 0
       THEN /\ op' = [NoOp EXCEPT !.name = "probe", !.arg = ifnum, !.ret = -19]
            /\ UNCHANGED <<model, channel, ctrl_if, pstate>>
       ELSE /\ model' = m
            /\ channel' = ep
            /\ ctrl_if' = ifnum - (ifnum % 2)
            /\ pstate' = "Probed"
            /\ op' = [NoOp EXCEPT !.name = "probe", !.arg = ifnum]
    /\ wire' = <<>>
    /\ UNCHANGED <<termios, dev>>

Open(tty, f, rd, junk, gen) ==
    /\ op = NoOp
    /\ pstate \in {"Probed", "Closed"}
    /\ LET r == xr_open(Env(f, rd, junk, gen), <<>>, tty)
       IN  /\ wire' = r.wire
           /\ dev' = Deliver(model, channel, dev, r.wire)
           \* a failed open releases the tty it was given
           /\ termios' = IF r.ret = 0 THEN r.tty ELSE termios
           /\ pstate' = IF r.ret = 0 THEN "Open" ELSE pstate
           /\ op' = [NoOp EXCEPT !.dev = dev,
                                 !.name = "open", !.req = tty, !.ret = r.ret]
    /\ UNCHANGED <<model, channel, ctrl_if>>

\* usb_serial_generic_close() issues no control transfer
Close(f) ==
    /\ op = NoOp
    /\ pstate = "Open"
    /\ LET r == xr_close(Env(f, 0, 0, 0), <<>>)
       IN  /\ wire' = r.wire
           /\ dev' = Deliver(model, channel, dev, r.wire)
           /\ op' = [NoOp EXCEPT !.dev = dev,
                                 !.name = "close", !.ret = r.ret]
    /\ pstate' = "Closed"
    /\ UNCHANGED <<model, channel, ctrl_if, termios>>

\* the tty layer stores the new settings in tty->termios and passes the
\* previous ones as old_termios
SetTermios(new, f, rd, junk) ==
    /\ op = NoOp
    /\ pstate = "Open"
    /\ termios # <<>>
    /\ LET r == xr_set_termios(Env(f, rd, junk, 0), <<>>, new, termios)
       IN  /\ wire' = r.wire
           /\ dev' = Deliver(model, channel, dev, r.wire)
           /\ termios' = <<r.termios>>
           /\ op' = [NoOp EXCEPT !.dev = dev,
                                 !.name = "set_termios", !.req = <<new>>,
                                 !.old = termios]
    /\ UNCHANGED <<model, channel, ctrl_if, pstate>>

TiocmSet(set, clear, f) ==
    /\ op = NoOp
    /\ pstate = "Open"
    /\ LET r == xr_tiocmset_port(Env(f, 0, 0, 0), <<>>, set, clear)
       IN  /\ wire' = r.wire
           /\ dev' = Deliver(model, channel, dev, r.wire)
           /\ op' = [NoOp EXCEPT !.dev = dev,
                                 !.name = "tiocmset", !.arg = set,
                                 !.arg2 = clear, !.ret = r.ret]
    /\ UNCHANGED <<model, channel, ctrl_if, pstate, termios>>

TiocmGet(f, rd) ==
    /\ op = NoOp
    /\ pstate = "Open"
    /\ LET r == xr_tiocmget(Env(f, rd, 0, 0), <<>>)
       IN  /\ wire' = r.wire
           /\ dev' = Deliver(model, channel, dev, r.wire)
           /\ op' = [NoOp EXCEPT !.dev = dev,
                                 !.name = "tiocmget", !.ret = r.ret]
    /\ UNCHANGED <<model, channel, ctrl_if, pstate, termios>>

DtrRts(on, f) ==
    /\ op = NoOp
    /\ pstate = "Open"
    /\ LET r == xr_dtr_rts(Env(f, 0, 0, 0), <<>>, on)
       IN  /\ wire' = r.wire
           /\ dev' = Deliver(model, channel, dev, r.wire)
           /\ op' = [NoOp EXCEPT !.dev = dev,
                                 !.name = "dtr_rts", !.arg = on]
    /\ UNCHANGED <<model, channel, ctrl_if, pstate, termios>>

BreakCtl(state, f, junk) ==
    /\ op = NoOp
    /\ pstate = "Open"
    /\ LET r == xr_break_ctl(Env(f, 0, junk, 0), <<>>, state)
       IN  /\ wire' = r.wire
           /\ dev' = Deliver(model, channel, dev, r.wire)
           /\ op' = [NoOp EXCEPT !.dev = dev,
                                 !.name = "break_ctl", !.arg = state]
    /\ UNCHANGED <<model, channel, ctrl_if, pstate, termios>>

Return ==
    /\ op # NoOp
    /\ op' = NoOp
    /\ wire' = <<>>
    /\ UNCHANGED <<model, channel, ctrl_if, pstate, termios, dev>>

\* a port opened before keeps its tty's settings; a fresh one gets any
OpenTtys == IF pstate = "Closed" THEN {termios}
            ELSE {<<>>} \cup {<<t>> : t \in LineSettings}

\* the guards are repeated ahead of the quantifiers so that a call that
\* cannot happen is dismissed before its inputs are enumerated
Idle(states) == op = NoOp /\ pstate \in states

DoProbe ==
    /\ Idle({"Unbound"})
    /\ \E m \in Models, i \in 0..MaxIfnum : \E ep \in Channels(m) :
           Probe(m, i, ep)
DoOpen ==
    /\ Idle({"Probed", "Closed"})
    /\ \E tty \in OpenTtys, o \in Outside(MaxXferOpen, JunksTermios),
          gen \in GenRets :
            Open(tty, o.fault, o.rd, o.junk, gen)
DoClose ==
    /\ Idle({"Open"})
    /\ \E f \in FaultsLeft(MaxXferShort) : Close(f)
DoSetTermios ==
    /\ Idle({"Open"})
    /\ \E new \in LineSettings,
          o \in Outside(MaxXferTermios, JunksTermios) :
            SetTermios(new, o.fault, o.rd, o.junk)
DoTiocmSet ==
    /\ Idle({"Open"})
    /\ \E set \in {0, 2, 4, 6}, clear \in {0, 2, 4, 6},
          f \in FaultsLeft(MaxXferShort) : TiocmSet(set, clear, f)
DoTiocmGet ==
    /\ Idle({"Open"})
    /\ \E f \in FaultsLeft(MaxXferShort), rd \in RdVals : TiocmGet(f, rd)
DoDtrRts ==
    /\ Idle({"Open"})
    /\ \E on \in {0, 1}, f \in FaultsLeft(MaxXferShort) : DtrRts(on, f)
DoBreakCtl ==
    /\ Idle({"Open"})
    /\ \E st \in {-1, 0}, f \in FaultsLeft(MaxXferShort),
          junk \in JunksBreak : BreakCtl(st, f, junk)

Next ==
    \/ DoProbe
    \/ DoOpen
    \/ DoClose
    \/ DoSetTermios
    \/ DoTiocmSet
    \/ DoTiocmGet
    \/ DoDtrRts
    \/ DoBreakCtl
    \/ Return

Spec == Init /\ [][Next]_vars

(***************************************************************************)
(* The register access layer on its own: every model, every channel the    *)
(* model's channel arithmetic is written for, every block and every named  *)
(* register of the model's table, written and read once.                   *)
(***************************************************************************)
MaxVal == 1   \* values written by SetReg: 0..MaxVal

RegBlocks == {UART_REG_BLOCK, UM_REG_BLOCK, UART_CUSTOM_BLOCK}

RegChannels(m) ==
    CASE m = "XR21V141X" -> 0..4
      [] m = "XR21B142X" -> 4..7
      [] OTHER -> {0, 1}

Registers == RegNames \ {"REQ_SET", "REQ_GET"}

InitReg ==
    /\ model \in Models
    /\ channel \in RegChannels(model)
    /\ ctrl_if = 0
    /\ pstate = "Probed"
    /\ termios = <<>>
    /\ op = NoOp
    /\ wire = <<>>
    /\ dev = DevReset

\* xr_set_reg(port, block, xr_hal_table[model][nm], val)
SetReg(block, nm, val, f) ==
    /\ op = NoOp
    /\ LET r == xr_set_reg(Env(f, 0, 0, 0), <<>>, block,
                           xr_hal_table(model, nm), val, nm)
       IN  /\ wire' = r.wire
           /\ dev' = Deliver(model, channel, dev, r.wire)
           /\ op' = [NoOp EXCEPT !.dev = dev,
                                 !.name = "set_reg", !.req = <<nm>>,
                                 !.arg = block, !.arg2 = val, !.ret = r.ret]
    /\ UNCHANGED <<model, channel, ctrl_if, pstate, termios>>

\* xr_get_reg(port, block, xr_hal_table[model][nm], &val)
GetReg(block, nm, f, rd) ==
    /\ op = NoOp
    /\ LET r == xr_get_reg(Env(f, rd, 0, 0), <<>>, block,
                           xr_hal_table(model, nm), nm)
       IN  /\ wire' = r.wire
           /\ dev' = Deliver(model, channel, dev, r.wire)
           /\ op' = [NoOp EXCEPT !.dev = dev,
                                 !.name = "get_reg", !.req = <<nm>>,
                                 !.arg = block, !.arg2 = r.val,
                                 !.ret = r.ret]
    /\ UNCHANGED <<model, channel, ctrl_if, pstate, termios>>

DoSetReg ==
    /\ op = NoOp
    /\ \E block \in RegBlocks, nm \in Registers, val \in 0..MaxVal,
          f \in Faults(1) : SetReg(block, nm, val, f)

DoGetReg ==
    /\ op = NoOp
    /\ \E block \in RegBlocks, nm \in Registers, f \in Faults(1),
          rd \in RdVals : GetReg(block, nm, f, rd)

NextReg ==
    \/ DoSetReg
    \/ DoGetReg
    \/ Return

SpecReg == InitReg /\ [][NextReg]_vars

(***************************************************************************)
(* The baud-rate engine on its own: an XR21V141X port whose tty asks for   *)
(* one baud after another.                                                 *)
(***************************************************************************)
BaudSpan == 12   \* how far the samples reach from each end of the range

\* the rates of the tty layer's table between 50 and 4,000,000
StdBauds ==
    {50, 75, 110, 134, 150, 200, 300, 600, 1200, 1800, 2400, 4800, 9600,
     19200, 38400, 57600, 115200, 230400, 460800, 500000, 576000, 921600,
     1000000, 1152000, 1500000, 2000000, 2500000, 3000000, 3500000, 4000000}

\* the baud-rate engine issues at most seven transfers
MaxXferBaud == 7

\* B0 (hang up), both ends of [MIN_SPEED, MAX_SPEED] and what lies just
\* outside it, the standard rates, and the largest baud for each of the
\* quotients
\* 32 .. 63 + BaudSpan of (32 * XR_INT_OSC_HZ) / baud
BaudSamples ==
    ((MIN_SPEED - BaudSpan)..(MIN_SPEED + BaudSpan))
    \cup ((MAX_SPEED - BaudSpan)..(MAX_SPEED + BaudSpan))
    \cup StdBauds
    \cup {(32 * XR_INT_OSC_HZ) \div q : q \in 32..(63 + BaudSpan)}
    \cup {0}

InitBaud ==
    /\ model = "XR21V141X"
    /\ channel \in Channels(model)
    /\ ctrl_if = 0
    /\ pstate = "Open"
    /\ termios = <<Line(9600, 8, FALSE, FALSE, FALSE, FALSE, FALSE, FALSE)>>
    /\ op = NoOp
    /\ wire = <<>>
    /\ dev = DevReset

\* xr_set_baudrate(tty, port) with tty->termios.c_ospeed = baud
SetBaudrate(baud, f) ==
    /\ op = NoOp
    /\ LET r == xr_set_baudrate(Env(f, 0, 0, 0), <<>>,
                                [termios[1] EXCEPT !.ospeed = baud])
       IN  /\ wire' = r.wire
           /\ dev' = Deliver(model, channel, dev, r.wire)
           /\ termios' = <<r.termios>>
           /\ op' = [NoOp EXCEPT !.dev = dev,
                                 !.name = "set_baudrate", !.arg = baud,
                                 !.ret = r.ret]
    /\ UNCHANGED <<model, channel, ctrl_if, pstate>>

\* the bauds under which transfers are made to fail: zero, both ends of
\* [MIN_SPEED, MAX_SPEED], one baud outside each end and two standard rates
FaultBauds ==
    {0, MIN_SPEED - 1, MIN_SPEED, 9600, 115200, MAX_SPEED, MAX_SPEED + 1}

\* every sample with all transfers succeeding, and every failure pattern
\* under the bauds of FaultBauds
DoSetBaudrate ==
    /\ op = NoOp
    /\ \/ \E baud \in BaudSamples : SetBaudrate(baud, NoFault)
       \/ \E baud \in FaultBauds, f \in Faults(MaxXferBaud) :
              SetBaudrate(baud, f)

NextBaud ==
    \/ DoSetBaudrate
    \/ Return

SpecBaud == InitBaud /\ [][NextBaud]_vars

(***************************************************************************)
(* Reading the wire                                                        *)
(***************************************************************************)
\* transfer x is a vendor write of register nm / of value v to register nm
IsWrite(x, nm) == x.type = "vendor" /\ x.dir = "out" /\ x.reg = nm
IsWriteVal(x, nm, v) == IsWrite(x, nm) /\ x.wValue = v
IsRead(x, nm) == x.type = "vendor" /\ x.dir = "in" /\ x.reg = nm

AllOk == \A i \in 1..Len(wire) : wire[i].ok

\* the call on display is a register access / a baud-rate change
RegCall == op.name \in {"set_reg", "get_reg"}
BaudCall == op.name = "set_baudrate"

\* <<wIndex, wValue>> of every transfer, in order
WireRegVals == [i \in 1..Len(wire) |-> <<wire[i].wIndex, wire[i].wValue>>]

\* every transfer is a vendor write to the UART block with request 0
UartWritesReq0 ==
    \A i \in 1..Len(wire) :
        /\ wire[i].type = "vendor" /\ wire[i].dir = "out"
        /\ wire[i].req = 0 /\ wire[i].block = UART_REG_BLOCK

(***************************************************************************)
(* Register addressing (checked under SpecReg)                             *)
(***************************************************************************)
\* C1: on XR21V141X, for every channel c in 1..4, every block and every
\* register R, the transfer issued by set_reg and get_reg carries
\* wIndex = (block << 8) | R | ((c - 1) << 8).
C1_ChannelInWIndex ==
    (RegCall /\ model = "XR21V141X" /\ channel \in 1..4) =>
        wire[1].wIndex =
            BitOr(BitOr(op.arg * 256, xr_hal_table(model, op.req[1])),
                  (channel - 1) * 256)

\* the port's register accesses carry no channel offset
NoChannelOffset ==
    \/ model \in {"XR2280X", "XR21B1411"}
    \/ model = "XR21V141X" /\ channel \in {0, 1}
    \/ model = "XR21B142X" /\ channel = 4

\* C2: for every model and every register whose table entry is not the
\* sentinel, an access on a port without channel offset carries the full
\* table address: wIndex = table_address | (block << 8).
C2_FullTableAddress ==
    (/\ RegCall
     /\ NoChannelOffset
     /\ xr_hal_table(model, op.req[1]) # VIA_CDC_REGISTER) =>
        wire[1].wIndex = BitOr(xr_hal_table(model, op.req[1]), op.arg * 256)

(***************************************************************************)
(* Baud-rate engine (checked under SpecBaud)                               *)
(***************************************************************************)
InRange(b) == MIN_SPEED <= b /\ b <= MAX_SPEED

\* C3, as stated: for every baud b with 46 <= b <= 48,000,000 the
\* clock-mask index is at least 2, so entries 0 and 1 are never selected.
C3_IndexAtLeastTwo ==
    (BaudCall /\ InRange(op.arg)) => BaudIdx(op.arg) >= 2

\* C3, amended: for every baud b with 46 <= b <= 48,000,000 the index lies
\* in 0..31 and is the 5-bit fraction of the divisor,
\* floor(32*48,000,000/b) - 32*floor(48,000,000/b); it is 0 whenever b
\* divides 48,000,000, so entries 0 and 1 can be selected; the tx mask
\* written is the one of the entry at that index.
C3_IndexWithinTable ==
    (BaudCall /\ InRange(op.arg)) =>
        /\ BaudIdx(op.arg) \in 0..31
        /\ BaudIdx(op.arg) = ((32 * XR_INT_OSC_HZ) \div op.arg)
                                - 32 * (XR_INT_OSC_HZ \div op.arg)
        /\ (XR_INT_OSC_HZ % op.arg = 0 => BaudIdx(op.arg) = 0)
        /\ (Len(wire) = 7 =>
              wire[4].wValue + 256 * wire[5].wValue
                  = xr21v141x_txrx_clk_masks[BaudIdx(op.arg) + 1][1])

\* a baud within the range has selected entry 1 and all seven writes went out
C3_Witness ==
    /\ BaudCall /\ InRange(op.arg)
    /\ BaudIdx(op.arg) = 1
    /\ Len(wire) = 7 /\ AllOk

\* C4, as stated: baud 9600 on XR21V141X channel 1, all transfers
\* succeeding, computes divisor 5000, index 16, tx mask 0xaaa and rx mask
\* 0x554 and issues exactly the UART-block writes (0x04,0x88),(0x05,0x13),
\* (0x06,0x00),(0x07,0xaa),(0x08,0x0a),(0x09,0x54),(0x0a,0x05) in that
\* order with vendor request 0.
C4_Baud9600AsStated ==
    (BaudCall /\ op.arg = 9600 /\ channel = 1 /\ AllOk) =>
        /\ BaudDivisor(9600) = 5000
        /\ BaudIdx(9600) = 16
        /\ BaudTxMask(9600) = 2730
        /\ BaudRxMask(9600) = 1364
        /\ WireRegVals = << <<4, 136>>, <<5, 19>>, <<6, 0>>, <<7, 170>>,
                            <<8, 10>>, <<9, 84>>, <<10, 5>> >>
        /\ UartWritesReq0

\* C4, amended: baud 9600 on XR21V141X channel 1, all transfers
\* succeeding, computes divisor 5000, index 0, tx mask 0 and rx mask 0 and
\* issues exactly the UART-block writes (0x04,0x88),(0x05,0x13),(0x06,0x00),
\* (0x07,0x00),(0x08,0x00),(0x09,0x00),(0x0a,0x00) in that order with
\* vendor request 0.
C4_Baud9600 ==
    (BaudCall /\ op.arg = 9600 /\ channel = 1 /\ AllOk) =>
        /\ BaudDivisor(9600) = 5000
        /\ BaudIdx(9600) = 0
        /\ BaudTxMask(9600) = 0
        /\ BaudRxMask(9600) = 0
        /\ WireRegVals = << <<4, 136>>, <<5, 19>>, <<6, 0>>, <<7, 0>>,
                            <<8, 0>>, <<9, 0>>, <<10, 0>> >>
        /\ UartWritesReq0

\* 9600 baud has been set on channel 1 and every write went through
C4_Witness ==
    /\ BaudCall /\ op.arg = 9600 /\ channel = 1
    /\ AllOk /\ Len(wire) = 7
    /\ op.ret = 0 /\ termios[1].ospeed = 9600

\* C5, as stated: baud 115200 on XR21V141X computes divisor 416 (even) and
\* index 21, and the rx mask selected and written to RX_CLOCK_MASK_0/1 is
\* 0xd6c (low byte 0x6c, high byte 0x0d).
C5_Baud115200AsStated ==
    (BaudCall /\ op.arg = 115200 /\ AllOk) =>
        /\ BaudDivisor(115200) = 416 /\ ~HasBit(416, 1)
        /\ BaudIdx(115200) = 21
        /\ BaudRxMask(115200) = 3436
        /\ IsWriteVal(wire[6], "RX_CLOCK_MASK_0", 108)
        /\ IsWriteVal(wire[7], "RX_CLOCK_MASK_1", 13)

\* C5, amended: baud 115200 on XR21V141X computes divisor 416 (even) and
\* index 21, and the rx mask selected and written to RX_CLOCK_MASK_0/1 is
\* 0xb6a, the rx0 mask of entry 21 (low byte 0x6a, high byte 0x0b).
C5_Baud115200 ==
    (BaudCall /\ op.arg = 115200 /\ AllOk) =>
        /\ BaudDivisor(115200) = 416 /\ ~HasBit(416, 1)
        /\ BaudIdx(115200) = 21
        /\ BaudRxMask(115200) = 2922
        /\ IsWriteVal(wire[6], "RX_CLOCK_MASK_0", 106)
        /\ IsWriteVal(wire[7], "RX_CLOCK_MASK_1", 11)
        /\ wire[6].wIndex = RX_CLOCK_MASK_0 /\ wire[7].wIndex = RX_CLOCK_MASK_1

\* 115200 baud has been set and both rx mask bytes were written
C5_Witness ==
    /\ BaudCall /\ op.arg = 115200 /\ AllOk
    /\ Len(wire) = 7
    /\ IsWrite(wire[6], "RX_CLOCK_MASK_0") /\ IsWrite(wire[7], "RX_CLOCK_MASK_1")

(***************************************************************************)
(* Driver operations (checked under Spec)                                  *)
(***************************************************************************)
\* the transfers of xr_uart_disable end right before position i
DisableBefore(i) ==
    IF model = "XR21V141X"
    THEN /\ i > 2
         /\ IsWriteVal(wire[i - 2], "REG_ENABLE", 0)
         /\ IsWriteVal(wire[i - 1], "UM_FIFO_ENABLE", 0)
    ELSE /\ i > 1
         /\ IsWriteVal(wire[i - 1], "REG_ENABLE", 0)

\* the transfers of xr_uart_enable start right after position i
EnableAfter(i) ==
    /\ i < Len(wire)
    /\ IF model = "XR21V141X"
       THEN IsWriteVal(wire[i + 1], "UM_FIFO_ENABLE", UM_ENABLE_TX_FIFO)
       ELSE IsWriteVal(wire[i + 1], "REG_ENABLE",
                       UART_ENABLE_TX + UART_ENABLE_RX)

\* C6: in every execution of every driver operation, each transfer that
\* writes the FLOW_CTRL register is immediately preceded on the wire by the
\* transfers of uart_disable (UART.ENABLE=0, and UM.FIFO_ENABLE=0 on
\* XR21V141X) and immediately followed by the transfers of uart_enable.
C6_FlowCtrlBracketed ==
    \A i \in 1..Len(wire) :
        IsWrite(wire[i], "REG_FLOW_CTRL") =>
            DisableBefore(i) /\ EnableAfter(i)

\* xr_uart_enable, the first step of xr_open, went through
EnableStepOk ==
    IF model = "XR21V141X"
    THEN Len(wire) >= 3 /\ wire[1].ok /\ wire[2].ok /\ wire[3].ok
    ELSE Len(wire) >= 1 /\ wire[1].ok

\* the last write to UART.ENABLE of the call is a write of 0
EndsDisabled ==
    \E i \in 1..Len(wire) :
        /\ IsWriteVal(wire[i], "REG_ENABLE", 0)
        /\ \A j \in (i + 1)..Len(wire) : ~IsWrite(wire[j], "REG_ENABLE")

\* C7: whenever xr_open returns an error after its uart_enable step
\* succeeded (the FIFO reset or the hand-off to the generic layer failed),
\* a UART disable (UART.ENABLE=0) has been issued before open returns, so
\* a failed open never leaves the UART enabled.
C7_FailedOpenDisables ==
    (op.name = "open" /\ op.ret # 0 /\ EnableStepOk) => EndsDisabled

\* positions of the GPIO_MODE read of xr_set_flow_mode
GpioModeReads == {i \in 1..Len(wire) : IsRead(wire[i], "REG_GPIO_MODE")}

IsLineCoding(x) == x.type = "class" /\ x.req = USB_CDC_REQ_SET_LINE_CODING

\* C8, as stated: during set_termios a failed transfer does not abort the
\* later steps: when the GPIO_MODE read fails, the flow-control sequence
\* (uart_disable, FLOW_CTRL write, uart_enable) is still issued, and on the
\* CDC path SET_LINE_CODING is still sent.
C8_ReadFailureGoesOn ==
    op.name = "set_termios" =>
        \A g \in GpioModeReads :
            ~wire[g].ok =>
                /\ \E i \in (g + 1)..Len(wire) :
                       /\ IsWrite(wire[i], "REG_FLOW_CTRL")
                       /\ IsWriteVal(wire[i - 1], "REG_ENABLE", 0)
                          \/ IsWriteVal(wire[i - 1], "UM_FIFO_ENABLE", 0)
                       /\ EnableAfter(i)
                /\ IsCdc => IsLineCoding(wire[Len(wire)])

\* C8, amended: during set_termios a failed transfer does not abort the
\* call: the GPIO_MODE read is always issued, after the FORMAT write on the
\* private-register path, and on the CDC path SET_LINE_CODING is always the
\* last transfer sent.  But when the GPIO_MODE read fails, xr_set_flow_mode
\* returns at once: nothing of the flow-control sequence follows the read
\* (on the CDC path only SET_LINE_CODING does); when the read succeeds, the
\* FLOW_CTRL write is issued whatever else fails.
C8_ReadFailureSkipsFlow ==
    op.name = "set_termios" =>
        /\ Cardinality(GpioModeReads) = 1
        /\ \A g \in GpioModeReads :
            /\ IsCdc => IsLineCoding(wire[Len(wire)])
            /\ ~IsCdc => g > 1 /\ IsWrite(wire[g - 1], "REG_FORMAT")
            /\ ~wire[g].ok => Len(wire) = g + (IF IsCdc THEN 1 ELSE 0)
            /\ wire[g].ok =>
                   \E i \in (g + 1)..Len(wire) :
                       IsWrite(wire[i], "REG_FLOW_CTRL")

\* a set_termios on the CDC path whose GPIO_MODE read failed, and
\* SET_LINE_CODING went out right after it
C8_Witness ==
    /\ op.name = "set_termios" /\ IsCdc
    /\ \E g \in GpioModeReads :
           /\ ~wire[g].ok
           /\ Len(wire) = g + 1
           /\ IsLineCoding(wire[g + 1])

\* the private-register path, and the previous line state the claim speaks
\* of: absent, or present with 7 or 8 bits
PrevSizeOk == op.old = <<>> \/ op.old[1].csize \in {7, 8}

\* C9: on the private-register path, for every requested character size
\* and every previous line state (absent, or present with size 7 or 8),
\* after set_termios the size recorded in the line state is 7 or 8 and the
\* data-bits field (bits 3:0) of the value written to FORMAT equals it;
\* CS5/CS6 requests end with the old size, or with 8 without one.
C9_CharSize ==
    (/\ op.name \in {"set_termios", "open"}
     /\ op.req # <<>>
     /\ model \in {"XR2280X", "XR21V141X"}
     /\ PrevSizeOk
     /\ \E i \in 1..Len(wire) : IsWrite(wire[i], "REG_FORMAT")) =>
        /\ termios # <<>> => termios[1].csize \in {7, 8}
        /\ \A i \in 1..Len(wire) :
               IsWrite(wire[i], "REG_FORMAT") =>
                   /\ wire[i].wValue % 16 \in {7, 8}
                   /\ termios # <<>> => wire[i].wValue % 16 = termios[1].csize
                   /\ (op.req[1].csize \in {5, 6}) =>
                          wire[i].wValue % 16 =
                              (IF op.old = <<>> THEN 8 ELSE op.old[1].csize)

\* C10: on the CDC path a set_termios with non-zero requested baud asserts
\* DTR (a GPIO_CLR write containing the DTR bit is issued before
\* set_flow_mode runs) and one with zero requested baud clears DTR (a
\* GPIO_SET write containing the DTR bit); only the scheduled direction is
\* applied.
C10_DtrScheduled ==
    (op.name = "set_termios" /\ IsCdc) =>
        \A g \in GpioModeReads :
            IF op.req[1].ospeed # 0
            THEN /\ \E i \in 1..(g - 1) :
                        /\ IsWrite(wire[i], "REG_GPIO_CLR")
                        /\ HasBit(wire[i].wValue, UART_MODE_DTR)
                 /\ \A i \in 1..(g - 1) : ~IsWrite(wire[i], "REG_GPIO_SET")
            ELSE /\ \E i \in 1..(g - 1) :
                        /\ IsWrite(wire[i], "REG_GPIO_SET")
                        /\ HasBit(wire[i].wValue, UART_MODE_DTR)
                 /\ \A i \in 1..(g - 1) : ~IsWrite(wire[i], "REG_GPIO_CLR")

\* C11: on XR21B142X with hardware flow control requested and a non-zero
\* baud, the value sent for the GPIO_MODE write is the value read from
\* GPIO_MODE with bits 0..2 cleared, bits 0..1 set to 01 and 0x300 OR'ed in
\* (bits 8 and 9 set on the wire); and FLOW_CTRL=1 is written between
\* ENABLE=0 and ENABLE=3.
C11_GpioModeHwFlow ==
    (/\ op.name = "set_termios"
     /\ model = "XR21B142X"
     /\ op.req[1].crtscts /\ op.req[1].ospeed # 0
     /\ AllOk) =>
        \A g \in GpioModeReads :
            /\ \E i \in (g + 1)..Len(wire) :
                   /\ IsWrite(wire[i], "REG_GPIO_MODE")
                   /\ wire[i].wValue =
                          BitOr(BitOr(wire[g].data[1] - (wire[g].data[1] % 8),
                                      1), 768)
            /\ \E j \in (g + 2)..(Len(wire) - 1) :
                   /\ IsWriteVal(wire[j - 1], "REG_ENABLE", 0)
                   /\ IsWriteVal(wire[j], "REG_FLOW_CTRL", UART_FLOW_MODE_HW)
                   /\ IsWriteVal(wire[j + 1], "REG_ENABLE", 3)

(***************************************************************************)
(* Modem control and break (checked under Spec).  A register is named by   *)
(* the table entry the caller passes; what address reaches the wire is     *)
(* the subject of C1, C2 and C17.                                          *)
(***************************************************************************)
\* the UART_MODE bits of the DTR and RTS bits of a TIOCM mask
ModemBits(mask) ==
    (IF HasBit(mask, 2) THEN 8 ELSE 0) + (IF HasBit(mask, 4) THEN 32 ELSE 0)

\* the one write of a direction, or none when its mask is empty
DirWrite(nm, bits) == IF bits = 0 THEN <<>> ELSE << <<nm, bits>> >>

\* <<register, value>> of every transfer, in order
WireNamedVals == [i \in 1..Len(wire) |-> <<wire[i].reg, wire[i].wValue>>]

\* C12: tiocmset(set, clear) writes the requested set bits of DTR/RTS to
\* GPIO_CLR (DTR=0x08, RTS=0x20) and the requested clear bits to GPIO_SET,
\* GPIO_CLR first; a direction with an empty mask issues no write.
\* tiocmset(DTR|RTS, 0) issues exactly GPIO_CLR=0x28, and dtr_rts(on) /
\* dtr_rts(off) issue exactly GPIO_CLR=0x28 / GPIO_SET=0x28.
C12_ModemControlWrites ==
    /\ op.name = "tiocmset" =>
          /\ WireNamedVals = DirWrite("REG_GPIO_CLR", ModemBits(op.arg))
                             \o DirWrite("REG_GPIO_SET", ModemBits(op.arg2))
          /\ \A i \in 1..Len(wire) :
                 wire[i].type = "vendor" /\ wire[i].dir = "out"
          /\ (op.arg = 6 /\ op.arg2 = 0) =>
                 WireNamedVals = << <<"REG_GPIO_CLR", 40>> >>
    /\ op.name = "dtr_rts" =>
          /\ WireNamedVals = IF op.arg # 0
                             THEN << <<"REG_GPIO_CLR", 40>> >>
                             ELSE << <<"REG_GPIO_SET", 40>> >>
          /\ \A i \in 1..Len(wire) :
                 wire[i].type = "vendor" /\ wire[i].dir = "out"

\* a tiocmset that asserted DTR and dropped RTS: both writes, GPIO_CLR first
C12_Witness ==
    /\ op.name = "tiocmset" /\ op.arg = 2 /\ op.arg2 = 4
    /\ Len(wire) = 2
    /\ IsWriteVal(wire[1], "REG_GPIO_CLR", 8)
    /\ IsWriteVal(wire[2], "REG_GPIO_SET", 32)

\* C13: if any register write issued by tiocmset fails, tiocmset returns a
\* negative error.
C13_TiocmsetReportsFailure ==
    (op.name = "tiocmset" /\ \E i \in 1..Len(wire) : ~wire[i].ok) =>
        op.ret < 0

(***************************************************************************)
(* The model table (checked under SpecReg, for the model of the port)      *)
(***************************************************************************)
\* C14: for the port's model and every pair of distinct register names,
\* the table entries are the sentinel or a 16-bit address, and two distinct
\* register names never map to the same address.
C14_TableAddressesDistinct ==
    \A r1 \in Registers : \A r2 \in Registers \ {r1} :
        /\ \/ xr_hal_table(model, r1) = VIA_CDC_REGISTER
           \/ xr_hal_table(model, r1) \in 0..65535
        /\ xr_hal_table(model, r1) # VIA_CDC_REGISTER =>
               xr_hal_table(model, r1) # xr_hal_table(model, r2)

\* C15: break_ctl(state) on XR21V141X issues exactly one vendor write,
\* TX_BREAK=0xff when state is non-zero and TX_BREAK=0x00 when it is zero;
\* on every other model it issues exactly one class SEND_BREAK request and
\* no vendor write, with wIndex the control-interface number, wLength 0
\* and a wValue fixed by the requested state: zero when the break is
\* released.
C15_BreakCtl ==
    op.name = "break_ctl" =>
        /\ Len(wire) = 1
        /\ model = "XR21V141X" =>
               IsWriteVal(wire[1], "REG_TX_BREAK",
                          IF op.arg # 0 THEN 255 ELSE 0)
        /\ model # "XR21V141X" =>
               /\ wire[1].type = "class" /\ wire[1].dir = "out"
               /\ wire[1].req = USB_CDC_REQ_SEND_BREAK
               /\ wire[1].wIndex = ctrl_if
               /\ wire[1].wLength = 0
               /\ op.arg = 0 => wire[1].wValue = 0

(***************************************************************************)
(* Open and UART enable (checked under Spec)                               *)
(***************************************************************************)
\* transfer x is the vendor write block.reg = val, as it appears on the wire
IsBlockWrite(x, block, reg, val) ==
    /\ x.type = "vendor" /\ x.dir = "out"
    /\ x.block = block
    /\ x.wIndex = block * 256 + reg
    /\ x.wValue = val

\* the FIFO reset offset of the port: max(channel - 1, 0)
FifoChannel == IF channel > 0 THEN channel - 1 ELSE 0

\* C16: a successful open on XR21V141X with every control transfer
\* succeeding begins with exactly UM.0x10=0x01, UART.0x03=0x03, UM.0x10=0x03,
\* UART.0x1b=0x28, UM.(0x18+c)=0xff, UM.(0x1c+c)=0xff, c = max(channel-1,0),
\* in this order with nothing in between; termios traffic comes only after
\* them (an open without a tty issues nothing else).
C16_OpenSequence ==
    (op.name = "open" /\ model = "XR21V141X" /\ op.ret = 0 /\ AllOk) =>
        /\ Len(wire) >= 6
        /\ IsBlockWrite(wire[1], 4, 16, 1)
        /\ IsBlockWrite(wire[2], 0, 3, 3)
        /\ IsBlockWrite(wire[3], 4, 16, 3)
        /\ IsBlockWrite(wire[4], 0, 27, 40)
        /\ IsBlockWrite(wire[5], 4, 24 + FifoChannel, 255)
        /\ IsBlockWrite(wire[6], 4, 28 + FifoChannel, 255)
        /\ op.req = <<>> => Len(wire) = 6
        /\ \A i \in 1..6 : wire[i].reg \notin
               {"REG_FORMAT", "REG_GPIO_MODE", "REG_FLOW_CTRL", "SET_LINE_CODING"}

\* channel 2 of an XR21V141X was opened with a tty: the resets went to
\* UM.0x19 and UM.0x1d and termios traffic followed
C16_Witness ==
    /\ op.name = "open" /\ model = "XR21V141X" /\ channel = 2
    /\ op.ret = 0 /\ AllOk
    /\ op.req # <<>>
    /\ Len(wire) > 6
    /\ IsBlockWrite(wire[5], 4, 25, 255)

\* C17: on XR21B142X, for every channel c in 4..6, every block and every
\* register R of the model (a table entry that is not the sentinel), the
\* transfer issued by set_reg and by get_reg carries
\* wIndex = (block << 8) | (R | ((c - 4) << 1)).
C17_ChannelShiftInWIndex ==
    (/\ RegCall /\ model = "XR21B142X" /\ channel \in 4..6
     /\ xr_hal_table(model, op.req[1]) # VIA_CDC_REGISTER) =>
        /\ Len(wire) = 1
        /\ wire[1].wIndex =
               BitOr(op.arg * 256,
                     BitOr(xr_hal_table(model, op.req[1]), (channel - 4) * 2))

\* GPIO_STATUS (0x10) of channel 6 was read in the UM block: wIndex 0x414
C17_Witness ==
    /\ op.name = "get_reg" /\ model = "XR21B142X" /\ channel = 6
    /\ op.req = <<"REG_GPIO_STATUS">> /\ op.arg = UM_REG_BLOCK
    /\ Len(wire) = 1 /\ wire[1].dir = "in"
    /\ wire[1].wIndex = 1044

(***************************************************************************)
(* The UART enable, disable and FIFO reset sequences on their own, on any  *)
(* model and channel and under any pattern of transfer failures.           *)
(***************************************************************************)
MaxXferUart == 4

\* xr_uart_enable(port)
UartEnable(f) ==
    /\ op = NoOp
    /\ LET r == xr_uart_enable(Env(f, 0, 0, 0), <<>>)
       IN  /\ wire' = r.wire
           /\ dev' = Deliver(model, channel, dev, r.wire)
           /\ op' = [NoOp EXCEPT !.dev = dev,
                                 !.name = "uart_enable", !.ret = r.ret]
    /\ UNCHANGED <<model, channel, ctrl_if, pstate, termios>>

\* xr_uart_disable(port)
UartDisable(f) ==
    /\ op = NoOp
    /\ LET r == xr_uart_disable(Env(f, 0, 0, 0), <<>>)
       IN  /\ wire' = r.wire
           /\ dev' = Deliver(model, channel, dev, r.wire)
           /\ op' = [NoOp EXCEPT !.dev = dev,
                                 !.name = "uart_disable", !.ret = r.ret]
    /\ UNCHANGED <<model, channel, ctrl_if, pstate, termios>>

\* fifo_reset(port)
FifoReset(f) ==
    /\ op = NoOp
    /\ LET r == fifo_reset(Env(f, 0, 0, 0), <<>>)
       IN  /\ wire' = r.wire
           /\ dev' = Deliver(model, channel, dev, r.wire)
           /\ op' = [NoOp EXCEPT !.dev = dev,
                                 !.name = "fifo_reset", !.ret = r.ret]
    /\ UNCHANGED <<model, channel, ctrl_if, pstate, termios>>

DoUartEnable == op = NoOp /\ \E f \in Faults(MaxXferUart) : UartEnable(f)
DoUartDisable == op = NoOp /\ \E f \in Faults(MaxXferUart) : UartDisable(f)
DoFifoReset == op = NoOp /\ \E f \in Faults(MaxXferUart) : FifoReset(f)

NextUart ==
    \/ DoUartEnable
    \/ DoUartDisable
    \/ DoFifoReset
    \/ Return

SpecUart == InitReg /\ [][NextUart]_vars

\* the index of the first failed transfer of the call, 0 when none failed
FirstFailed ==
    IF AllOk THEN 0
    ELSE CHOOSE i \in 1..Len(wire) :
             ~wire[i].ok /\ \A j \in 1..(i - 1) : wire[j].ok

\* the three steps of the XR21V141X enable sequence, as <<block, reg, val>>
EnableSteps == << <<4, 16, 1>>, <<0, 3, 3>>, <<4, 16, 3>> >>

IsEnableStep(i) ==
    IsBlockWrite(wire[i], EnableSteps[i][1], EnableSteps[i][2],
                 EnableSteps[i][3])

\* C18: on XR21V141X every execution of uart_enable issues its writes in
\* the order UM.FIFO_ENABLE=TX_FIFO, UART.ENABLE=TX|RX,
\* UM.FIFO_ENABLE=TX_FIFO|RX_FIFO, stops at the first failed write and
\* returns its error; the RX FIFO is never enabled before UART.ENABLE=TX|RX
\* has succeeded; if the final write fails, UART.ENABLE=0 is written as a
\* rollback before the error is returned.  On every other model it issues
\* the single write ENABLE=TX|RX to the UART block.
C18_UartEnableOrder ==
    op.name = "uart_enable" =>
        /\ model = "XR21V141X" =>
              /\ Len(wire) = CASE FirstFailed = 0 -> 3
                               [] FirstFailed = 3 -> 4
                               [] OTHER -> FirstFailed
              /\ \A i \in 1..Len(wire) : i <= 3 => IsEnableStep(i)
              /\ FirstFailed = 3 => IsBlockWrite(wire[4], 0, 3, 0)
              /\ (op.ret < 0) = (FirstFailed # 0)
              /\ (op.ret = 0) = (FirstFailed = 0)
              /\ \A i \in 1..Len(wire) :
                     (IsWrite(wire[i], "UM_FIFO_ENABLE")
                      /\ HasBit(wire[i].wValue, UM_ENABLE_RX_FIFO)) =>
                         \E j \in 1..(i - 1) :
                             IsWriteVal(wire[j], "REG_ENABLE", 3) /\ wire[j].ok
        /\ model # "XR21V141X" =>
              /\ Len(wire) = 1
              /\ IsWriteVal(wire[1], "REG_ENABLE", 3)
              /\ wire[1].block = UART_REG_BLOCK
              /\ (op.ret < 0) = ~wire[1].ok
              /\ (op.ret = 0) = wire[1].ok

\* on XR21V141X the last step of the enable sequence failed and the
\* rollback was written
C18_Witness ==
    /\ op.name = "uart_enable" /\ model = "XR21V141X"
    /\ Len(wire) = 4
    /\ wire[1].ok /\ wire[2].ok /\ ~wire[3].ok
    /\ IsBlockWrite(wire[4], 0, 3, 0)
    /\ op.ret < 0

(***************************************************************************)
(* The baud-rate engine under transfer failures (checked under SpecBaud)   *)
(***************************************************************************)
\* C19: for every requested baud and every pattern of transfer failures,
\* the writes of the baud-rate engine are a prefix of the writes to UART
\* registers 0x04, 0x05, ..., 0x0a (the divisor bytes low to high first):
\* empty, with result success, when the baud is zero; ending at the first
\* failed write, whose error is returned; and the clamped baud is stored
\* in the line state only when all seven writes succeeded.
C19_BaudWritesPrefix ==
    BaudCall =>
        /\ Len(wire) <= 7
        /\ \A i \in 1..Len(wire) :
               /\ wire[i].type = "vendor" /\ wire[i].dir = "out"
               /\ wire[i].block = UART_REG_BLOCK
               /\ wire[i].wIndex = 3 + i
        /\ \A i \in 1..Len(wire) : i <= 3 =>
               wire[i].wValue =
                   CASE i = 1 -> (XR_INT_OSC_HZ \div BaudClamp(op.arg)) % 256
                     [] i = 2 -> ((XR_INT_OSC_HZ \div BaudClamp(op.arg))
                                      \div 256) % 256
                     [] i = 3 -> ((XR_INT_OSC_HZ \div BaudClamp(op.arg))
                                      \div 65536) % 256
        /\ op.arg = 0 => (wire = <<>> /\ op.ret = 0)
        /\ op.arg # 0 =>
               Len(wire) = IF FirstFailed = 0 THEN 7 ELSE FirstFailed
        /\ (op.ret < 0) = (FirstFailed # 0)
        /\ (op.ret = 0) = (FirstFailed = 0)
        /\ termios[1].ospeed =
               IF op.arg # 0 /\ Len(wire) = 7 /\ AllOk
               THEN BaudClamp(op.arg) ELSE op.arg

\* a baud below MIN_SPEED was requested and the fifth write failed: the
\* engine stopped there and the line state keeps the requested baud
C19_Witness ==
    /\ BaudCall /\ op.arg \in 1..(MIN_SPEED - 1)
    /\ Len(wire) = 5 /\ ~wire[5].ok
    /\ \A i \in 1..4 : wire[i].ok
    /\ op.ret < 0
    /\ termios[1].ospeed = op.arg

(***************************************************************************)
(* DTR and RTS at the end of set_flow_mode (checked under Spec)            *)
(***************************************************************************)
\* transfer x is a write to one of the two modem-line registers
IsModemWrite(x) == IsWrite(x, "REG_GPIO_SET") \/ IsWrite(x, "REG_GPIO_CLR")

\* the call ends its register traffic at g with the write nm = 0x28, after
\* the GPIO_MODE write that follows the GPIO_MODE read r; on the CDC path
\* the SET_LINE_CODING class request is all that follows
EndsWithModemWrite(r, nm) ==
    \E i \in (r + 1)..Len(wire) :
        /\ IsWriteVal(wire[i], nm, 40)
        /\ \E m \in (r + 1)..(i - 1) : IsWrite(wire[m], "REG_GPIO_MODE")
        /\ \A j \in (r + 1)..(i - 1) : ~IsModemWrite(wire[j])
        /\ \A j \in (i + 1)..Len(wire) : IsLineCoding(wire[j])

\* C20: in a set_termios on an open port with every transfer succeeding,
\* on either path: when the new baud is zero the call ends by writing
\* GPIO_SET=0x28 after the GPIO_MODE write; when the previous baud was
\* zero and the new one is not, it ends by writing GPIO_CLR=0x28; when the
\* new baud is non-zero and the previous one non-zero or absent,
\* set_flow_mode writes neither GPIO_SET nor GPIO_CLR.
C20_DtrRtsOnBaudChange ==
    /\ (op.name = "set_termios" /\ AllOk) =>
           /\ Cardinality(GpioModeReads) = 1
           /\ \A r \in GpioModeReads :
                  CASE op.req[1].ospeed = 0 ->
                           EndsWithModemWrite(r, "REG_GPIO_SET")
                    [] op.req[1].ospeed # 0 /\ op.old[1].ospeed = 0 ->
                           EndsWithModemWrite(r, "REG_GPIO_CLR")
                    [] OTHER ->
                           \A j \in (r + 1)..Len(wire) : ~IsModemWrite(wire[j])
    /\ (op.name = "open" /\ AllOk /\ op.req # <<>> /\ op.req[1].ospeed # 0) =>
           \A r \in GpioModeReads :
               \A j \in (r + 1)..Len(wire) : ~IsModemWrite(wire[j])

\* the baud went from zero to non-zero on the CDC path: GPIO_CLR=0x28 was
\* written after the GPIO_MODE write and SET_LINE_CODING followed
C20_Witness ==
    /\ op.name = "set_termios" /\ AllOk /\ IsCdc
    /\ op.old[1].ospeed = 0 /\ op.req[1].ospeed # 0
    /\ Len(wire) >= 3
    /\ IsLineCoding(wire[Len(wire)])
    /\ IsWriteVal(wire[Len(wire) - 1], "REG_GPIO_CLR", 40)
    /\ IsWrite(wire[Len(wire) - 2], "REG_GPIO_MODE")

(***************************************************************************)
(* The device's registers through the port's life (checked under Spec)     *)
(***************************************************************************)
\* C21: in any sequence of calls on one port in which every control
\* transfer succeeds, between calls the device's UART ENABLE register of
\* the port is TX|RX (0x03) whenever the port is Open and 0 whenever it is
\* Closed; on XR21V141X the UM FIFO-enable register is likewise 0x03 when
\* Open and 0 when Closed.
C21_EnableFollowsPortState ==
    (op = NoOp /\ ~dev.lost /\ pstate \in {"Open", "Closed"}) =>
        /\ dev.enable = IF pstate = "Open" THEN 3 ELSE 0
        /\ model = "XR21V141X" =>
               dev.fifo = IF pstate = "Open" THEN 3 ELSE 0

(***************************************************************************)
(* Two ports of one device (checked under SpecReg)                         *)
(***************************************************************************)
\* the channels of the ports of a multi-port device
SiblingChannels(m) ==
    CASE m = "XR21V141X" -> 1..4
      [] m = "XR21B142X" -> 4..6
      [] OTHER -> {}

\* wIndex of the access to register nm of block by the port on channel c of
\* the same device
SiblingWIndex(c, block, nm) ==
    xr_set_reg([Env(NoFault, 0, 0, 0) EXCEPT !.channel = c], <<>>, block,
               xr_hal_table(model, nm), 0, nm).wire[1].wIndex

\* C22: for two ports of one multi-port device with distinct channels
\* (XR21V141X 1..4, XR21B142X 4..6), the wIndex values one port's register
\* accesses can carry (any register of the model, any block the driver
\* uses) are disjoint from the other port's: no transfer issued for one
\* port addresses a register of the other.
C22_PortsDisjoint ==
    (/\ RegCall /\ channel \in SiblingChannels(model)
     /\ xr_hal_table(model, op.req[1]) # VIA_CDC_REGISTER) =>
        \A c \in SiblingChannels(model) \ {channel} :
            \A block \in RegBlocks, nm \in Registers :
                xr_hal_table(model, nm) # VIA_CDC_REGISTER =>
                    SiblingWIndex(c, block, nm) # wire[1].wIndex

\* the device's registers when transfer i of the call is delivered
DevBefore(i) == Deliver(model, channel, op.dev, SubSeq(wire, 1, i - 1))

\* C23: even when control transfers may fail, at the moment a FLOW_CTRL
\* write is delivered the device's UART ENABLE register of the port is 0
\* (the UART is disabled, not merely asked to be), and when set_flow_mode
\* has returned on an open port the ENABLE register is TX|RX again or the
\* failure has been reported to the caller.
C23_FlowCtrlWhileDisabled ==
    /\ \A i \in 1..Len(wire) :
           (IsWrite(wire[i], "REG_FLOW_CTRL") /\ wire[i].ok) =>
               DevBefore(i).enable = 0
    /\ (op.name = "set_termios" /\ GpioModeReads # {}) =>
           \/ dev.enable = 3
           \/ op.ret < 0

====
